---- MODULE Spec2Model ----
(***************************************************************************)
(* Model of the MH-53E flight-dynamics engine: the classes StateSpace      *)
(* (statespace.py) and StabilityDerivatives (stabilityderivatives.py).     *)
(*                                                                         *)
(* Python floats are modelled as binary fixed-point numbers with 20        *)
(* fractional bits: the integer n stands for the real n / One.  All        *)
(* arithmetic is arranged so that every intermediate stays inside a        *)
(* signed 32-bit word; products and quotients round to nearest.            *)
(* Units: m, s, rad, Mg (1000 kg) and kN, so that thrust, weight and mass  *)
(* are all representable.                                                  *)
(***************************************************************************)
EXTENDS Integers, Sequences, FiniteSets, TLC

\* ------------------------------------------------------------------------
\* Fixed-point arithmetic standing in for Python's float
\* ------------------------------------------------------------------------
HalfWord == 1024
One == HalfWord * HalfWord

Abs(x) == IF x < 0 THEN -x ELSE x
Sgn(x) == IF x < 0 THEN -1 ELSE IF x > 0 THEN 1 ELSE 0
Max(a, b) == IF a >= b THEN a ELSE b
Min(a, b) == IF a <= b THEN a ELSE b

\* a * b on magnitudes, split in half-words so that no partial product
\* overflows: the sum of the four partial products hh, t1, t2, ll, rounded
\* to the nearest representable number
MulSum(hh, t1, t2, ll) ==
    hh + (t1 \div HalfWord) + (t2 \div HalfWord)
       + (((t1 % HalfWord) + (t2 % HalfWord) + (ll \div HalfWord)
            + (HalfWord \div 2)) \div HalfWord)

MulParts(ah, al, bh, bl) == MulSum(ah * bh, ah * bl, al * bh, al * bl)

MulAbs(a, b) == MulParts(a \div HalfWord, a % HalfWord, b \div HalfWord, b % HalfWord)

\* float product a * b
Mul(a, b) == Sgn(a) * Sgn(b) * MulAbs(Abs(a), Abs(b))

\* binary long division: n more quotient bits of r / b, appended to acc
RECURSIVE FracDiv(_, _, _, _)
FracDiv(r, b, n, acc) ==
    IF n = 0 THEN acc
    ELSE IF r >= b - r
         THEN FracDiv(r - (b - r), b, n - 1, 2 * acc + 1)
         ELSE FracDiv(2 * r, b, n - 1, 2 * acc)

\* a / b on magnitudes: one quotient bit more than kept, then rounded to the
\* nearest representable number
DivAbs(a, b) == (FracDiv(a % b, b, 21, a \div b) + 1) \div 2

\* float quotient a / b.  Python raises ZeroDivisionError for b = 0: the
\* callers flag that case themselves, the value returned for it is unused.
Div(a, b) == IF b = 0 THEN 0 ELSE Sgn(a) * Sgn(b) * DivAbs(Abs(a), Abs(b))

\* integer square root by bisection on lo..hi
RECURSIVE ISqrt(_, _, _)
ISqrt(n, lo, hi) ==
    IF lo >= hi THEN lo
    ELSE LET mid == (lo + hi + 1) \div 2
         IN  IF mid * mid <= n THEN ISqrt(n, mid, hi) ELSE ISqrt(n, lo, mid - 1)

RECURSIVE Newton(_, _, _)
Newton(x, r, n) == IF n = 0 THEN r ELSE Newton(x, (r + Div(x, r)) \div 2, n - 1)

\* math.sqrt(x), x >= 0
sqrt(x) == IF x = 0 THEN 0 ELSE Newton(x, Max(ISqrt(x, 0, 46340), 1) * HalfWord, 4)

\* math.pi
pi == 3294199
TwoPi == 2 * pi
HalfPi == pi \div 2

\* math.sin(x): reduction to [-pi, pi], folding into [-pi/2, pi/2], then the
\* Taylor polynomial of degree 9 in Horner form (x2 is r * r)
WrapPi(r0) == IF r0 > pi THEN r0 - TwoPi ELSE IF r0 < -pi THEN r0 + TwoPi ELSE r0

FoldHalfPi(r1) == IF r1 > HalfPi THEN pi - r1 ELSE IF r1 < -HalfPi THEN -pi - r1 ELSE r1

SinPoly(r, x2) ==
    Mul(r, One - (Mul(x2, One - (Mul(x2, One - (Mul(x2, One - (x2 \div 72))
                                                  \div 42)) \div 20)) \div 6))

SinReduced(r) == SinPoly(r, Mul(r, r))

sin(x) == SinReduced(FoldHalfPi(WrapPi(Sgn(x) * (Abs(x) % TwoPi))))

\* math.cos(x): reduction to [0, pi], folding into [0, pi/2], then the Taylor
\* polynomial of degree 10 in Horner form (x2 is r * r)
CosPoly(x2) ==
    One - (Mul(x2, One - (Mul(x2, One - (Mul(x2, One - (Mul(x2, One - (x2 \div 90))
                                               \div 56)) \div 30)) \div 12)) \div 2)

CosReduced(r) == CosPoly(Mul(r, r))

CosFolded(r1) ==
    (IF r1 > HalfPi THEN -1 ELSE 1) * CosReduced(IF r1 > HalfPi THEN pi - r1 ELSE r1)

cos(x) == CosFolded(Min(Abs(x) % TwoPi, TwoPi - (Abs(x) % TwoPi)))

\* tan(pi/8) = sqrt(2) - 1
TanPi8 == 434334

\* atan(z) for |z| <= tan(pi/8): the Taylor polynomial of degree 13 in Horner
\* form (z2 is z * z)
AtanPoly(z, z2) ==
    Mul(z, One - Mul(z2, (One \div 3) - Mul(z2, (One \div 5) - Mul(z2, (One \div 7)
             - Mul(z2, (One \div 9) - Mul(z2, (One \div 11) - Mul(z2, One \div 13)))))))

AtanSmall(z) == AtanPoly(z, Mul(z, z))

\* atan(z) for 0 <= z <= 1: above tan(pi/8) by atan(z) = pi/4 + atan((z-1)/(z+1))
AtanUnit(z) ==
    (IF z > TanPi8 THEN pi \div 4 ELSE 0)
      + AtanSmall(IF z > TanPi8 THEN Div(z - One, z + One) ELSE z)

\* atan(a / b) from the atan of the quotient formed with the smaller magnitude on top
AtanSigned(a, b, ratio) ==
    Sgn(a) * Sgn(b) * (IF Abs(a) <= Abs(b) THEN ratio ELSE HalfPi - ratio)

\* math.atan(a / b), b # 0; the quotient is formed with the smaller magnitude
\* on top so that it stays representable
atan(a, b) ==
    AtanSigned(a, b, AtanUnit(Div(Min(Abs(a), Abs(b)), Max(Abs(a), Abs(b)))))

\* math.radians(x)
radians(x) == Div(Mul(x, pi), 180 * One)

\* sqrt(a**2 + b**2), scaled by the larger magnitude so the squares stay in range
HypotScaled(hi, t) == IF hi = 0 THEN 0 ELSE Mul(hi, sqrt(One + Mul(t, t)))

HypotOrdered(hi, lo) == HypotScaled(hi, Div(lo, hi))

Hypot(a, b) == HypotOrdered(Max(Abs(a), Abs(b)), Min(Abs(a), Abs(b)))

\* ------------------------------------------------------------------------
\* Constants inherited from globs.Constants and CH53Inertia
\* ------------------------------------------------------------------------
omega == Div(1937, 100)                 \* main_rotor.omega [rad/s]
radius == Div(1204, 100)                \* main_rotor.radius [m]
solidity == Div(14, 100)                \* main_rotor.solidity
lift_gradient == Div(57, 10)            \* blade lift-curve slope [1/rad]
lock_number == Div(8, 1)
g == Div(981, 100)                      \* [m/s^2]
mass_mtow == Div(3334, 100)             \* [Mg]
weight_mtow == Mul(mass_mtow, g)        \* [kN]
rho_disk == Div(558, 1000)              \* rho * pi * radius**2 [Mg/m]
drag_factor == Div(285, 100000)         \* flat_plate_area * 0.5 * rho [Mg/m]
inertia_yy == Div(290, 1)               \* inertia.yy [Mg m^2]
rotor_distance_to_cg == Div(25, 10)     \* [m]
tip_speed == Mul(omega, radius)         \* main_rotor.omega * main_rotor.radius

\* ------------------------------------------------------------------------
\* The flight state: an instance of StateSpace / StabilityDerivatives
\* ------------------------------------------------------------------------
\* __init__ with the two control arguments taken in the wrong order
FlightState_swapped(u0, w0, q0, th0, coll, cyc) ==
    [u |-> u0, w |-> w0, q |-> q0, theta_f |-> th0,
     collective_pitch |-> cyc, longitudinal_cyclic |-> coll]

\* __init__
FlightState(u0, w0, q0, th0, coll, cyc) ==
    [u |-> u0, w |-> w0, q |-> q0, theta_f |-> th0,
     collective_pitch |-> coll, longitudinal_cyclic |-> cyc]

velocity(s) == Hypot(s.u, s.w)

\* alpha_control without the vertical-translation case
flight_path_angle_always(s) ==
    [gamma |-> IF s.u > 0 THEN atan(s.w, s.u) ELSE atan(s.w, s.u) + pi,
     divisors |-> {s.u}]

\* alpha_control without the half turn added in backward flight
flight_path_angle_nopi(s) ==
    IF s.u # 0
    THEN [gamma |-> atan(s.w, s.u), divisors |-> {s.u}]
    ELSE [gamma |-> IF s.w > 0 THEN HalfPi ELSE -HalfPi, divisors |-> {}]

\* the flight-path angle chosen by alpha_control, with the divisors of the
\* divisions it performs
flight_path_angle(s) ==
    IF s.u # 0
    THEN [gamma |-> IF s.u > 0 THEN atan(s.w, s.u) ELSE atan(s.w, s.u) + pi,
          divisors |-> {s.u}]
    ELSE [gamma |-> IF s.w > 0 THEN HalfPi ELSE -HalfPi,
          divisors |-> {}]

alpha_control(s) == s.longitudinal_cyclic - flight_path_angle(s).gamma

advance_ratio(s) == Div(Mul(velocity(s), cos(alpha_control(s))), tip_speed)

inflow_ratio_control(s) == Div(Mul(velocity(s), sin(alpha_control(s))), tip_speed)

\* the lazily evaluated attributes the inflow residual reads on every call
Cached(s) ==
    [velocity |-> velocity(s), alpha_control |-> alpha_control(s),
     advance_ratio |-> advance_ratio(s),
     inflow_ratio_control |-> inflow_ratio_control(s)]

longitudinal_disk_tilt_func(s, c, lambda_i) ==
    LET mu == c.advance_ratio
        theta0 == s.collective_pitch
        lambda_c == c.inflow_ratio_control
    IN  Div(Mul(Mul(Div(8, 3), mu), theta0) - Mul(2 * mu, lambda_c + lambda_i)
              - Mul(Div(16 * One, lock_number), Div(s.q, omega)),
            One - (Mul(mu, mu) \div 2))

thrust_coefficient_elem(s, c, lambda_i) ==
    LET mu == c.advance_ratio
        cla == lift_gradient
        sigma == solidity
        lambda_c == c.inflow_ratio_control
        theta0 == s.collective_pitch
    IN  Mul(Mul(One \div 4, Mul(cla, sigma)),
            Mul(Mul(Div(2, 3), theta0), One + Mul(Div(3, 2), Mul(mu, mu)))
              - (lambda_c + lambda_i))

\* the Glauert thrust coefficient for the disk tilt a1 and v = V / (Omega R)
glauert(c, lambda_i, a1, v) ==
    Mul(2 * lambda_i,
        Hypot(Mul(v, cos(c.alpha_control - a1)),
              Mul(v, sin(c.alpha_control - a1)) + lambda_i))

thrust_coefficient_glau(s, c, lambda_i) ==
    glauert(c, lambda_i, longitudinal_disk_tilt_func(s, c, lambda_i),
            Div(c.velocity, tip_speed))

hover_induced_velocity == sqrt(Div(weight_mtow, 2 * rho_disk))

\* func: the residual handed to fsolve
func(s, c, lambda_i) ==
    thrust_coefficient_elem(s, c, lambda_i) - thrust_coefficient_glau(s, c, lambda_i)

\* ------------------------------------------------------------------------
\* scipy.optimize.fsolve on a scalar residual: a secant iteration started
\* from x0 with a forward-difference slope.  ier = 1 on convergence; any
\* other ier is a failure that fsolve reports with a warning only, handing
\* back the last iterate.
\* ------------------------------------------------------------------------
fsolve_x0 == Div(2, 100)    \* x0=np.array([2e-2])
DiffStep == 1024            \* forward-difference step of the first slope
XTol == 2                   \* xtol, at the resolution of the number format
maxfev == 400               \* 200 * (n + 1) residual evaluations

\* the secant step fx * (x - xp) / (fx - fp), dividing first when the
\* product would leave the word
SecantStep(xp, fp, x, fx) ==
    IF Abs(x - xp) < Abs(fx - fp)
    THEN Div(Mul(fx, x - xp), fx - fp)
    ELSE Mul(fx, Div(x - xp, fx - fp))

RECURSIVE Secant(_, _, _, _, _, _, _)
RECURSIVE SecantMove(_, _, _, _, _, _)
Secant(s, c, xp, fp, x, fx, nfev) ==
    IF fx = 0 THEN [x |-> x, ier |-> 1, nfev |-> nfev]
    ELSE IF fx = fp THEN [x |-> x, ier |-> 5, nfev |-> nfev]
    ELSE SecantMove(s, c, x, fx, SecantStep(xp, fp, x, fx), nfev)

\* the iterate moved by step: accepted, given up, or the next iteration
SecantMove(s, c, x, fx, step, nfev) ==
    IF Abs(step) <= XTol THEN [x |-> x - step, ier |-> 1, nfev |-> nfev]
    ELSE IF nfev >= maxfev THEN [x |-> x - step, ier |-> 2, nfev |-> nfev]
    ELSE Secant(s, c, x, fx, x - step, func(s, c, x - step), nfev + 1)

fsolve(s, c, x0) ==
    Secant(s, c, x0, func(s, c, x0), x0 + DiffStep, func(s, c, x0 + DiffStep), 2)

\* the hover branch of inflow_ratio
hover_inflow ==
    [branch |-> "hover", ratio |-> Div(hover_induced_velocity, tip_speed),
     x0 |-> 0, ier |-> 1, nfev |-> 0, raised |-> "none"]

\* the other branch: float(fsolve(...)[0]) whatever r.ier is, nothing raised
solved_inflow(r) ==
    [branch |-> "fsolve", ratio |-> r.x,
     x0 |-> fsolve_x0, ier |-> r.ier, nfev |-> r.nfev, raised |-> "none"]

\* inflow_ratio taking the hover branch on u alone
inflow_solve_u(s, c) ==
    IF s.u = 0 THEN hover_inflow ELSE solved_inflow(fsolve(s, c, fsolve_x0))

\* inflow_ratio, with the branch taken and what the root search reported
inflow_solve(s, c) ==
    IF c.velocity = 0 THEN hover_inflow ELSE solved_inflow(fsolve(s, c, fsolve_x0))

inflow_ratio(s) == inflow_solve(s, Cached(s)).ratio

\* longitudinal_disk_tilt, thrust and drag from the cached attributes c and
\* the inflow sol
AttributesWith(s, c, sol) ==
    [velocity |-> c.velocity,
     inflow |-> sol,
     inflow_ratio |-> sol.ratio,
     longitudinal_disk_tilt |-> longitudinal_disk_tilt_func(s, c, sol.ratio),
     thrust |-> Mul(Mul(Mul(thrust_coefficient_elem(s, c, sol.ratio), tip_speed),
                        rho_disk), tip_speed),
     drag |-> Mul(Mul(drag_factor, c.velocity), c.velocity)]

AttributesOf(s, c) == AttributesWith(s, c, inflow_solve(s, c))

\* the cached attributes the four accelerations are built from:
\* inflow_ratio, longitudinal_disk_tilt, thrust, drag
Attributes(s) == AttributesOf(s, Cached(s))

\* the local `drag` without the test on the velocity
drag_term_unguarded(a, comp) ==
    [value |-> Div(Mul(a.drag, comp), Mul(mass_mtow, a.velocity)),
     divisors |-> {Mul(mass_mtow, a.velocity)}]

\* the local `drag` of u_dot / w_dot for the velocity component comp, with
\* the divisor of the division it performs
drag_term(a, comp) ==
    IF a.velocity # 0
    THEN [value |-> Div(Mul(a.drag, comp), Mul(mass_mtow, a.velocity)),
          divisors |-> {Mul(mass_mtow, a.velocity)}]
    ELSE [value |-> 0, divisors |-> {}]

\* u_dot with the thrust along the body x axis
u_dot_cos(s, a) ==
    - Mul(g, sin(s.theta_f)) - drag_term(a, s.u).value
    + Mul(Div(a.thrust, mass_mtow), cos(s.longitudinal_cyclic - a.longitudinal_disk_tilt))
    - Mul(s.q, s.w)

u_dot(s, a) ==
    - Mul(g, sin(s.theta_f)) - drag_term(a, s.u).value
    + Mul(Div(a.thrust, mass_mtow), sin(s.longitudinal_cyclic - a.longitudinal_disk_tilt))
    - Mul(s.q, s.w)

w_dot(s, a) ==
    Mul(g, cos(s.theta_f)) - drag_term(a, s.w).value
    - Mul(Div(a.thrust, mass_mtow), cos(s.longitudinal_cyclic - a.longitudinal_disk_tilt))
    + Mul(s.q, s.u)

\* q_dot without the longitudinal cyclic in the moment arm
q_dot_tilt(s, a) ==
    Mul(Mul(Div(-a.thrust, inertia_yy), rotor_distance_to_cg),
        sin(-a.longitudinal_disk_tilt))

q_dot(s, a) ==
    Mul(Mul(Div(-a.thrust, inertia_yy), rotor_distance_to_cg),
        sin(s.longitudinal_cyclic - a.longitudinal_disk_tilt))

theta_f_dot(s) == s.q

\* ------------------------------------------------------------------------
\* Bounds of the explored inputs
\* ------------------------------------------------------------------------
MaxTrimSpeed == 1       \* plot_response is started at u = 0, 10, .. 10 * MaxTrimSpeed m/s

\* collective pitch at which the hover thrust balances weight_mtow
TrimCollective == Div(19114, 100000)

\* the instances plot_response is called on (Trim supplies them in __main__)
ResponseInputs ==
    { FlightState(10 * k * One, 0, 0, 0, TrimCollective, cyc) :
        k \in 0..MaxTrimSpeed, cyc \in {0, radians(One \div 2)} }

Classes == {"StateSpace", "StabilityDerivatives"}

\* np.linspace(0, 2, 100) in StateSpace, np.linspace(0, 10, 1000) in StabilityDerivatives
Horizon(c) == IF c = "StateSpace" THEN 2 ELSE 10
NumPoints(c) == IF c = "StateSpace" THEN 100 ELSE 1000

\* np.linspace with the end point left out
linspace_open(start, stop, num) ==
    LET step == Div(stop - start, num * One)
    IN  [n \in 1..num |-> start + (n - 1) * step]

\* np.linspace(start, stop, num) for start < stop: sample k is
\* start + k * (stop - start) / (num - 1) to the nearest representable
\* number, the last one set to stop
linspace(start, stop, num) ==
    [n \in 1..num |->
        IF n = num THEN stop
        ELSE start + (n - 1) * ((stop - start) \div (num - 1))
                   + ((2 * (n - 1) * ((stop - start) % (num - 1)) + (num - 1))
                        \div (2 * (num - 1)))]

\* Python's 0-based indexing of a list
At(seq, idx) == seq[idx + 1]

\* the constructor call writing its result over the instance built last
new_instance_inplace(instances, obj) == [instances EXCEPT ![Len(instances)] = obj]

\* a constructor call: obj is a new object next to the instances that exist
new_instance(instances, obj) == Append(instances, obj)

\* ------------------------------------------------------------------------
\* State
\* ------------------------------------------------------------------------
VARIABLES
    cls,            \* the class of self
    self,           \* the instance the caller holds
    pc,             \* where the caller is
    time,           \* plot_response: the time grid
    delta_t,        \* plot_response: time[1] - time[0]
    cyclic_input,   \* plot_response: the emitted cyclic series
    u, w, q, theta_f,   \* plot_response: the integrated series
    current_case,   \* plot_response: the instance of the current step
    i,              \* plot_response: the loop index
    objs,           \* every instance constructed so far, self first
    attrs,          \* the attributes of self read so far, with what their evaluation did
    axis,           \* *_derivatives: the perturbed field
    delta_u,        \* *_derivatives: the perturbation grid
    n,              \* *_derivatives: the number of grid points consumed
    case,           \* *_derivatives: the perturbed instance of the current sample
    u_dot_list, w_dot_list, q_dot_list, theta_f_dot_list,   \* *_derivatives: the ratios
    derivatives     \* *_derivatives: the returned 4-tuple

response_vars == <<time, delta_t, cyclic_input, u, w, q, theta_f, current_case, i>>
sweep_vars == <<axis, delta_u, n, case, u_dot_list, w_dot_list, q_dot_list,
                theta_f_dot_list, derivatives>>
vars == <<cls, self, pc, response_vars, objs, attrs, sweep_vars>>

\* nothing read yet
NoAttrs ==
    [alpha_control |-> [read |-> FALSE, value |-> 0, gamma |-> 0, divisors |-> {}],
     inflow_ratio |-> [read |-> FALSE, branch |-> "", ratio |-> 0, x0 |-> 0,
                       ier |-> 0, nfev |-> 0, raised |-> "none"],
     accelerations |-> [read |-> FALSE, u_dot |-> 0, w_dot |-> 0, q_dot |-> 0,
                        theta_f_dot |-> 0, divisors |-> {}, raised |-> "none"],
     again |-> [read |-> FALSE, u_dot |-> 0, w_dot |-> 0, q_dot |-> 0,
                theta_f_dot |-> 0, divisors |-> {}, raised |-> "none"],
     twin |-> [read |-> FALSE, u_dot |-> 0, w_dot |-> 0, q_dot |-> 0,
               theta_f_dot |-> 0, divisors |-> {}, raised |-> "none"],
     cache |-> [filled |-> FALSE]]

\* the caller holds a fresh instance and has called nothing yet
Fresh ==
    /\ pc = "new"
    /\ time = <<>>
    /\ delta_t = 0
    /\ cyclic_input = <<>>
    /\ u = <<>>
    /\ w = <<>>
    /\ q = <<>>
    /\ theta_f = <<>>
    /\ current_case = self
    /\ i = 0
    /\ objs = <<self>>
    /\ attrs = NoAttrs
    /\ axis = ""
    /\ delta_u = <<>>
    /\ n = 0
    /\ case = self
    /\ u_dot_list = <<>>
    /\ w_dot_list = <<>>
    /\ q_dot_list = <<>>
    /\ theta_f_dot_list = <<>>
    /\ derivatives = <<>>

\* ------------------------------------------------------------------------
\* plot_response: forward Euler integration under the scripted cyclic pulse
\* ------------------------------------------------------------------------
Init ==
    /\ cls \in Classes
    /\ self \in ResponseInputs
    /\ Fresh

\* the set-up before the loop
plot_response_begin ==
    /\ pc = "new"
    /\ time' = linspace(0, Horizon(cls) * One, NumPoints(cls))
    /\ delta_t' = At(time', 1) - At(time', 0)
    /\ cyclic_input' = <<0>>
    /\ u' = <<self.u>>
    /\ w' = <<self.w>>
    /\ q' = <<self.q>>
    /\ theta_f' = <<self.theta_f>>
    /\ current_case' = self
    /\ i' = 1
    /\ pc' = "loop"
    /\ UNCHANGED <<cls, self, objs, attrs, sweep_vars>>

\* the pulse with its upper bound included
control_input_closed(t) ==
    IF (One \div 2) < t /\ t <= One
    THEN self.longitudinal_cyclic + radians(One)
    ELSE self.longitudinal_cyclic

\* the value appended to cyclic_input for the time t
control_input(t) ==
    IF (One \div 2) < t /\ t < One
    THEN self.longitudinal_cyclic + radians(One)
    ELSE self.longitudinal_cyclic

\* the update without the step size
euler_nodt(x, x_dot, dt) == x + x_dot

\* the forward Euler update  x + x_dot * delta_t
euler(x, x_dot, dt) == x + Mul(x_dot, dt)

\* an iteration that takes the derivatives at the cyclic it is about to append
plot_response_step_ahead ==
    /\ pc = "loop"
    /\ i < Len(time)
    /\ \E c \in {[current_case EXCEPT !.longitudinal_cyclic = control_input(At(time, i))]} :
         \E a \in {Attributes(c)} :
           /\ u' = Append(u, euler(c.u, u_dot(c, a), delta_t))
           /\ w' = Append(w, euler(c.w, w_dot(c, a), delta_t))
           /\ q' = Append(q, euler(c.q, q_dot(c, a), delta_t))
           /\ theta_f' = Append(theta_f, euler(c.theta_f, theta_f_dot(c), delta_t))
    /\ cyclic_input' = Append(cyclic_input, control_input(At(time, i)))
    /\ current_case' = FlightState(At(u', i), At(w', i), At(q', i), At(theta_f', i),
                                   self.collective_pitch, At(cyclic_input', i))
    /\ objs' = new_instance(objs, current_case')
    /\ i' = i + 1
    /\ UNCHANGED <<cls, self, pc, time, delta_t, attrs, sweep_vars>>

\* one iteration of `for i in range(1, len(time))`
plot_response_step ==
    /\ pc = "loop"
    /\ i < Len(time)
    /\ \E a \in {Attributes(current_case)} :
           /\ u' = Append(u, euler(current_case.u, u_dot(current_case, a), delta_t))
           /\ w' = Append(w, euler(current_case.w, w_dot(current_case, a), delta_t))
           /\ q' = Append(q, euler(current_case.q, q_dot(current_case, a), delta_t))
           /\ theta_f' = Append(theta_f,
                  euler(current_case.theta_f, theta_f_dot(current_case), delta_t))
    /\ cyclic_input' = Append(cyclic_input, control_input(At(time, i)))
    /\ current_case' = FlightState(At(u', i), At(w', i), At(q', i), At(theta_f', i),
                                   self.collective_pitch, At(cyclic_input', i))
    /\ objs' = new_instance(objs, current_case')
    /\ i' = i + 1
    /\ UNCHANGED <<cls, self, pc, time, delta_t, attrs, sweep_vars>>

\* the loop is exhausted: the series are handed to the plots
plot_response_end ==
    /\ pc = "loop"
    /\ i = Len(time)
    /\ pc' = "plotted"
    /\ UNCHANGED <<cls, self, response_vars, objs, attrs, sweep_vars>>

Next == plot_response_begin \/ plot_response_step \/ plot_response_end

Spec == Init /\ [][Next]_vars

\* ------------------------------------------------------------------------
\* Reading the attributes of an instance
\* ------------------------------------------------------------------------
MaxVel == 1             \* velocity components reach 10 * MaxVel m/s
MaxRate == 1            \* pitch rates reach MaxRate / 10 rad/s

VelGrid ==
    {0} \cup { sg * v : sg \in {-1, 1},
                        v \in {1, One} \cup { 10 * k * One : k \in 1..MaxVel } }

AttrInputs ==
    { FlightState(u0, w0, (k * One) \div 10, 0, coll, cyc) :
        u0 \in VelGrid, w0 \in VelGrid, k \in 0..MaxRate,
        coll \in {0, TrimCollective}, cyc \in {0, radians(One)} }

InitAttr ==
    /\ cls \in {"StateSpace"}
    /\ self \in AttrInputs
    /\ Fresh

read_alpha_control ==
    /\ pc = "new"
    /\ ~attrs.alpha_control.read
    /\ attrs' = [attrs EXCEPT !.alpha_control =
                    [read |-> TRUE, value |-> alpha_control(self),
                     gamma |-> flight_path_angle(self).gamma,
                     divisors |-> flight_path_angle(self).divisors]]
    /\ UNCHANGED <<cls, self, pc, response_vars, objs, sweep_vars>>

read_inflow_ratio ==
    /\ pc = "new"
    /\ ~attrs.inflow_ratio.read
    /\ \E sol \in {inflow_solve(self, Cached(self))} :
           attrs' = [attrs EXCEPT !.inflow_ratio =
                        [read |-> TRUE, branch |-> sol.branch, ratio |-> sol.ratio,
                         x0 |-> sol.x0, ier |-> sol.ier, nfev |-> sol.nfev,
                         raised |-> sol.raised]]
    /\ UNCHANGED <<cls, self, pc, response_vars, objs, sweep_vars>>

\* a lazy attribute: evaluated on the first read, the stored value afterwards
lookup(cache, s) == IF cache.filled THEN cache.value ELSE Attributes(s)

\* the slots of the lazy attributes after the accelerations were read with
\* the attributes a
filled(s, a) ==
    [filled |-> TRUE, value |-> a, q_dot |-> q_dot(s, a), theta_f_dot |-> theta_f_dot(s)]

\* the four accelerations of s for the attributes a, with the divisors of
\* the drag terms
accelerations(s, a) ==
    [read |-> TRUE,
     u_dot |-> u_dot(s, a), w_dot |-> w_dot(s, a),
     q_dot |-> q_dot(s, a), theta_f_dot |-> theta_f_dot(s),
     divisors |-> drag_term(a, s.u).divisors \cup drag_term(a, s.w).divisors,
     raised |-> IF 0 \in (drag_term(a, s.u).divisors \cup drag_term(a, s.w).divisors)
                THEN "ZeroDivisionError" ELSE a.inflow.raised]

\* the first read storing thrust / mass_mtow in the slot of thrust
read_accelerations_dirty ==
    /\ pc = "new"
    /\ ~attrs.accelerations.read
    /\ \E a \in {lookup(attrs.cache, self)} :
           attrs' = [attrs EXCEPT
                        !.accelerations = accelerations(self, a),
                        !.cache = filled(self, [a EXCEPT !.thrust = Div(@, mass_mtow)])]
    /\ UNCHANGED <<cls, self, pc, response_vars, objs, sweep_vars>>

\* u_dot, w_dot, q_dot and theta_f_dot of self, read for the first time
read_accelerations ==
    /\ pc = "new"
    /\ ~attrs.accelerations.read
    /\ \E a \in {lookup(attrs.cache, self)} :
           attrs' = [attrs EXCEPT !.accelerations = accelerations(self, a),
                                  !.cache = filled(self, a)]
    /\ UNCHANGED <<cls, self, pc, response_vars, objs, sweep_vars>>

\* the same four read a second time: the properties u_dot and w_dot run
\* again on the stored attributes, q_dot and theta_f_dot are stored themselves
read_accelerations_again ==
    /\ pc = "new"
    /\ attrs.accelerations.read
    /\ ~attrs.again.read
    /\ \E a \in {lookup(attrs.cache, self)} :
           attrs' = [attrs EXCEPT !.again =
                        [accelerations(self, a) EXCEPT
                            !.q_dot = attrs.cache.q_dot,
                            !.theta_f_dot = attrs.cache.theta_f_dot]]
    /\ UNCHANGED <<cls, self, pc, response_vars, objs, sweep_vars>>

\* the four read on a second instance built with the six fields of self
read_accelerations_twin ==
    /\ pc = "new"
    /\ ~attrs.twin.read
    /\ \E t \in {FlightState(self.u, self.w, self.q, self.theta_f,
                             self.collective_pitch, self.longitudinal_cyclic)} :
         \E a \in {lookup(NoAttrs.cache, t)} :
           /\ attrs' = [attrs EXCEPT !.twin = accelerations(t, a)]
           /\ objs' = new_instance(objs, t)
    /\ UNCHANGED <<cls, self, pc, response_vars, sweep_vars>>

NextAttr ==
    \/ read_alpha_control
    \/ read_inflow_ratio
    \/ read_accelerations
    \/ read_accelerations_again
    \/ read_accelerations_twin

SpecAttr == InitAttr /\ [][NextAttr]_vars

\* ------------------------------------------------------------------------
\* The six *_derivatives attributes of StabilityDerivatives
\* ------------------------------------------------------------------------
Axes == {"u", "w", "q", "theta_f", "collective_pitch", "longitudinal_cyclic"}

\* delta_u: np.linspace(-10, 10, 100) for u and w,
\* np.linspace(radians(-10), radians(10), 100) for the angular fields
GridPoints == 100

\* a one-sided grid starting at the baseline
derivative_grid_from0(ax) ==
    IF ax \in {"u", "w"}
    THEN linspace(0, 10 * One, GridPoints)
    ELSE linspace(0, radians(10 * One), GridPoints)

\* a window reaching one unit further up than down
derivative_grid_offset(ax) ==
    IF ax \in {"u", "w"}
    THEN linspace(-10 * One, 11 * One, GridPoints)
    ELSE linspace(radians(-10 * One), radians(11 * One), GridPoints)

\* delta_u of the six sweeps
derivative_grid(ax) ==
    IF ax \in {"u", "w"}
    THEN linspace(-10 * One, 10 * One, GridPoints)
    ELSE linspace(radians(-10 * One), radians(10 * One), GridPoints)

\* the instance built for one sample: self with the field ax shifted by d
perturbed(s, ax, d) ==
    FlightState(IF ax = "u" THEN s.u + d ELSE s.u,
                IF ax = "w" THEN s.w + d ELSE s.w,
                IF ax = "q" THEN s.q + d ELSE s.q,
                IF ax = "theta_f" THEN s.theta_f + d ELSE s.theta_f,
                IF ax = "collective_pitch" THEN s.collective_pitch + d
                                           ELSE s.collective_pitch,
                IF ax = "longitudinal_cyclic" THEN s.longitudinal_cyclic + d
                                              ELSE s.longitudinal_cyclic)

\* np.mean of a list: the sum over the length, summed part by part so that
\* it stays inside the word
RECURSIVE SumQuot(_, _, _)
SumQuot(seq, len, k) ==
    IF k = 0 THEN 0 ELSE Sgn(seq[k]) * (Abs(seq[k]) \div len) + SumQuot(seq, len, k - 1)
RECURSIVE SumRem(_, _, _)
SumRem(seq, len, k) ==
    IF k = 0 THEN 0 ELSE Sgn(seq[k]) * (Abs(seq[k]) % len) + SumRem(seq, len, k - 1)
\* the mean with the last entry left out of the sums
mean_short(seq) ==
    LET len == Len(seq)
        rem == SumRem(seq, len, len - 1)
    IN  SumQuot(seq, len, len - 1) + Sgn(rem) * (Abs(rem) \div len)

mean(seq) ==
    LET len == Len(seq)
        rem == SumRem(seq, len, len)
    IN  SumQuot(seq, len, len) + Sgn(rem) * (Abs(rem) \div len)

\* the baselines of the sweeps: hover and forward flight, without and with a
\* pitch rate
DerivInputs ==
    { FlightState(10 * k * One, 0, q0, 0, TrimCollective, 0) :
        k \in 0..MaxTrimSpeed, q0 \in {0, One \div 10} }

InitDeriv ==
    /\ cls \in {"StabilityDerivatives"}
    /\ self \in DerivInputs
    /\ Fresh

\* the lists and the grid set up before the loop
derivatives_begin(ax) ==
    /\ pc = "new"
    /\ axis' = ax
    /\ delta_u' = derivative_grid(ax)
    /\ n' = 0
    /\ u_dot_list' = <<>>
    /\ w_dot_list' = <<>>
    /\ q_dot_list' = <<>>
    /\ theta_f_dot_list' = <<>>
    /\ pc' = "sweep"
    /\ UNCHANGED <<cls, self, response_vars, objs, attrs, case, derivatives>>

\* one iteration of `for i in delta_u`
derivatives_sample ==
    /\ pc = "sweep"
    /\ n < Len(delta_u)
    /\ LET d == delta_u[n + 1]
       IN  /\ case' = perturbed(self, axis, d)
           /\ \E a \in {Attributes(perturbed(self, axis, d))} :
                  /\ u_dot_list' = Append(u_dot_list, Div(u_dot(case', a), d))
                  /\ w_dot_list' = Append(w_dot_list, Div(w_dot(case', a), d))
                  /\ q_dot_list' = Append(q_dot_list, Div(q_dot(case', a), d))
                  /\ theta_f_dot_list' = Append(theta_f_dot_list, Div(theta_f_dot(case'), d))
    /\ objs' = new_instance(objs, case')
    /\ n' = n + 1
    /\ UNCHANGED <<cls, self, pc, response_vars, attrs, axis, delta_u, derivatives>>

\* the grid is exhausted: the four means are returned
derivatives_end ==
    /\ pc = "sweep"
    /\ n = Len(delta_u)
    /\ derivatives' = <<mean(u_dot_list), mean(w_dot_list), mean(q_dot_list),
                        mean(theta_f_dot_list)>>
    /\ pc' = "swept"
    /\ UNCHANGED <<cls, self, response_vars, objs, attrs, axis, delta_u, n, case,
                   u_dot_list, w_dot_list, q_dot_list, theta_f_dot_list>>

NextDeriv == (\E ax \in Axes : derivatives_begin(ax)) \/ derivatives_sample \/ derivatives_end

SpecDeriv == InitDeriv /\ [][NextDeriv]_vars

\* an instance of StabilityDerivatives on which the caller either reads one
\* of the six *_derivatives or calls plot_response
SpecLife == InitDeriv /\ [][Next \/ NextDeriv]_vars

\* ------------------------------------------------------------------------
\* Properties of plot_response (checked under Spec)
\* ------------------------------------------------------------------------
\* the instance of step idx: self for step 0, then the instance built in iteration idx
StepCase(idx) == objs[idx + 1]

\* C1: every iteration i appends to u, w, q and theta_f the value of step i-1
\* plus delta_t times u_dot, w_dot, q_dot and theta_f_dot (= q) of the instance
\* of step i-1, nothing else, and leaves the earlier entries as they are.
C1_EulerUpdate ==
    [][ (pc = "loop" /\ i' = i + 1) =>
          \E a \in {Attributes(StepCase(i - 1))} :
              /\ u' = Append(u, At(u, i - 1) + Mul(u_dot(StepCase(i - 1), a), delta_t))
              /\ w' = Append(w, At(w, i - 1) + Mul(w_dot(StepCase(i - 1), a), delta_t))
              /\ q' = Append(q, At(q, i - 1) + Mul(q_dot(StepCase(i - 1), a), delta_t))
              /\ theta_f' = Append(theta_f,
                     At(theta_f, i - 1) + Mul(At(q, i - 1), delta_t)) ]_vars

\* a run has finished in which the pulse moved every integrated variable
C1_Witness ==
    /\ pc = "plotted"
    /\ At(u, i - 1) # At(u, 0)
    /\ At(w, i - 1) # At(w, 0)
    /\ At(q, i - 1) # At(q, 0)
    /\ At(theta_f, i - 1) # At(theta_f, 0)

\* C2: entering iteration i every series holds exactly i entries; at the end
\* every series holds NumPoints entries after NumPoints - 1 Euler steps with
\* delta_t = horizon / (NumPoints - 1); entry 0 of u, w, q, theta_f is the
\* initial state.
C2_SeriesLengths ==
    LET series == <<u, w, q, theta_f, cyclic_input>>
    IN  /\ pc = "loop" =>
              /\ \A k \in 1..5 : Len(series[k]) = i
              /\ Len(objs) = i
        /\ pc = "plotted" =>
              /\ \A k \in 1..5 : Len(series[k]) = NumPoints(cls)
              /\ Len(objs) - 1 = NumPoints(cls) - 1
        /\ pc \in {"loop", "plotted"} =>
              /\ Len(time) = NumPoints(cls)
              /\ At(time, 0) = 0
              /\ At(time, NumPoints(cls) - 1) = Horizon(cls) * One
              /\ delta_t = (Horizon(cls) * One) \div (NumPoints(cls) - 1)
              /\ At(u, 0) = self.u
              /\ At(w, 0) = self.w
              /\ At(q, 0) = self.q
              /\ At(theta_f, 0) = self.theta_f

\* the 1000-point run has been integrated to its end
C2_Witness == pc = "plotted" /\ cls = "StabilityDerivatives" /\ Len(u) = 1000

\* C3: the instance built in iteration i >= 1 carries the base cyclic plus one
\* degree exactly when 0.5 < time[i] < 1.0, both bounds strict, and the base
\* cyclic otherwise; these iterations are 25..49 on the 2 s / 100-point grid
\* and 50..99 on the 10 s / 1000-point grid.
C3_CyclicPulse ==
    LET PulseSteps == IF cls = "StateSpace" THEN 25..49 ELSE 50..99
    IN  /\ control_input(One \div 2) = self.longitudinal_cyclic
        /\ control_input(One) = self.longitudinal_cyclic
        /\ \A j \in 1..(Len(objs) - 1) :
              /\ (j \in PulseSteps) <=>
                    ((One \div 2) < At(time, j) /\ At(time, j) < One)
              /\ StepCase(j).longitudinal_cyclic =
                    IF j \in PulseSteps
                    THEN self.longitudinal_cyclic + radians(One)
                    ELSE self.longitudinal_cyclic

\* a 100-point run with a non-zero base cyclic went through the pulse and back
C3_Witness ==
    /\ pc = "plotted"
    /\ cls = "StateSpace"
    /\ self.longitudinal_cyclic # 0
    /\ StepCase(25).longitudinal_cyclic = self.longitudinal_cyclic + radians(One)
    /\ StepCase(50).longitudinal_cyclic = self.longitudinal_cyclic

\* C4: the collective pitch of the instance of every step equals that of the
\* initial state.
C4_CollectiveHeld ==
    /\ current_case.collective_pitch = self.collective_pitch
    /\ \A j \in 0..(Len(objs) - 1) : StepCase(j).collective_pitch = self.collective_pitch

\* a run has finished whose last instance has a pitch rate and a cyclic of its own
C4_Witness ==
    /\ pc = "plotted"
    /\ current_case.q # self.q
    /\ current_case.u # self.u
    /\ current_case = StepCase(NumPoints(cls) - 1)

C6_FailureRaises ==
    (attrs.inflow_ratio.read /\ attrs.inflow_ratio.branch = "fsolve"
        /\ attrs.inflow_ratio.ier # 1)
    => attrs.inflow_ratio.raised = "InflowConvergenceError"

\* C7: the drag contribution to u_dot and w_dot is 0 when V = 0 and
\* D * u / (m * V) resp. D * w / (m * V) otherwise; no division by a zero
\* velocity takes place and nothing is raised.
C7_DragAtRest ==
    attrs.accelerations.read =>
        \E a \in {Attributes(self)} :
            LET V == velocity(self)
                drag_u == IF V = 0 THEN 0 ELSE Div(Mul(a.drag, self.u), Mul(mass_mtow, V))
                drag_w == IF V = 0 THEN 0 ELSE Div(Mul(a.drag, self.w), Mul(mass_mtow, V))
                tilt == self.longitudinal_cyclic - a.longitudinal_disk_tilt
            IN  /\ 0 \notin attrs.accelerations.divisors
                /\ attrs.accelerations.raised = "none"
                /\ V = 0 => attrs.accelerations.divisors = {}
                /\ attrs.accelerations.u_dot =
                      - Mul(g, sin(self.theta_f)) - drag_u
                      + Mul(Div(a.thrust, mass_mtow), sin(tilt)) - Mul(self.q, self.w)
                /\ attrs.accelerations.w_dot =
                      Mul(g, cos(self.theta_f)) - drag_w
                      - Mul(Div(a.thrust, mass_mtow), cos(tilt)) + Mul(self.q, self.u)

\* the accelerations were read on an instance at rest
C7_Witness ==
    /\ attrs.accelerations.read
    /\ self.u = 0
    /\ self.w = 0
    /\ attrs.accelerations.raised = "none"
    /\ attrs.accelerations.w_dot # 0

\* C8: alpha_control performs no division by zero: for u = 0 the flight-path
\* angle is +pi/2 or -pi/2 by the sign of w and nothing is divided; for u > 0
\* it is atan(w/u), for u < 0 atan(w/u) + pi; alpha_control is the
\* longitudinal cyclic minus that angle.
C8_AlphaControl ==
    attrs.alpha_control.read =>
        /\ 0 \notin attrs.alpha_control.divisors
        /\ self.u = 0 =>
              /\ attrs.alpha_control.divisors = {}
              /\ self.w > 0 => attrs.alpha_control.gamma = pi \div 2
              /\ self.w < 0 => attrs.alpha_control.gamma = -(pi \div 2)
              /\ attrs.alpha_control.gamma \in {pi \div 2, -(pi \div 2)}
        /\ self.u > 0 => attrs.alpha_control.gamma = atan(self.w, self.u)
        /\ self.u < 0 => attrs.alpha_control.gamma = atan(self.w, self.u) + pi
        /\ attrs.alpha_control.value = self.longitudinal_cyclic - attrs.alpha_control.gamma

\* alpha_control was read in a pure vertical translation upwards (w < 0)
C8_Witness ==
    /\ attrs.alpha_control.read
    /\ self.u = 0
    /\ self.w < 0
    /\ self.longitudinal_cyclic # 0

\* the slack granted to the rounding of atan, in units of the last place
AtanSlack == 4

\* C9: with w > 0 and the cyclic fixed, alpha_control at u # 0 differs from
\* its value at u = 0 by no more than |u| / w (up to rounding; never by more
\* than pi/2), from the positive and from the negative side alike: it tends
\* to the vertical-translation value as u tends to 0, without a jump.
C9_Continuity ==
    (attrs.alpha_control.read /\ self.w > 0 /\ self.u # 0) =>
        Abs(attrs.alpha_control.value - alpha_control([self EXCEPT !.u = 0]))
            <= (IF Abs(self.u) <= self.w THEN Div(Abs(self.u), self.w) ELSE pi \div 2)
               + AtanSlack

\* alpha_control was read one unit in the last place behind u = 0, at a w of
\* 5 m/s or more
C9_Witness ==
    /\ attrs.alpha_control.read
    /\ self.u = -1
    /\ self.w >= 5 * One
    /\ Abs(attrs.alpha_control.value - alpha_control([self EXCEPT !.u = 0])) <= AtanSlack

\* ------------------------------------------------------------------------
\* Properties of the derivative sweeps (checked under SpecDeriv)
\* ------------------------------------------------------------------------
\* C10: in each of the six sweeps the grid holds 100 offsets from -10 to +10
\* (or -radians(10) to +radians(10)), evenly spaced to the rounding of the
\* samples, none of which is 0, so no sample divides by zero.
C10_GridExcludesZero ==
    pc \in {"sweep", "swept"} =>
        LET bound == IF axis \in {"u", "w"} THEN 10 * One ELSE radians(10 * One)
        IN  /\ Len(delta_u) = 100
            /\ delta_u[1] = -bound
            /\ delta_u[100] = bound
            /\ \A k \in 1..99 :
                  Abs((delta_u[k + 1] - delta_u[k]) - Div(2 * bound, 99 * One)) <= 1
            /\ \A k \in 1..100 : delta_u[k] # 0
            /\ Len(u_dot_list) = n

\* a sweep of the pitch rate has gone through the whole grid
C10_Witness ==
    /\ pc = "swept"
    /\ axis = "q"
    /\ Len(q_dot_list) = 100
    /\ derivatives[4] # 0

\* the sum of seq[1..k] - m, the deviations of the entries from m
RECURSIVE DeviationSum(_, _, _)
DeviationSum(seq, m, k) ==
    IF k = 0 THEN 0 ELSE (seq[k] - m) + DeviationSum(seq, m, k - 1)

\* C11: in each sweep the instance of a sample is self with the swept field
\* shifted by the offset and the five other fields as they are, the entry
\* appended to each of the four lists is the acceleration of that instance
\* divided by the offset, and the k-th component returned is the arithmetic
\* mean of the 100 entries of the k-th list (the deviations from it sum to
\* less than one unit in the last place per entry).
C11_MeanOfRatios ==
    /\ (pc \in {"sweep", "swept"} /\ n >= 1) =>
           \E d \in {delta_u[n]} :
             \E c \in {[self EXCEPT ![axis] = self[axis] + d]} :
               \E a \in {Attributes(c)} :
                   /\ case = c
                   /\ objs[Len(objs)] = c
                   /\ u_dot_list[n] = Div(u_dot(c, a), d)
                   /\ w_dot_list[n] = Div(w_dot(c, a), d)
                   /\ q_dot_list[n] = Div(q_dot(c, a), d)
                   /\ theta_f_dot_list[n] = Div(c.q, d)
    /\ pc = "swept" =>
           LET lists == <<u_dot_list, w_dot_list, q_dot_list, theta_f_dot_list>>
           IN  /\ n = 100
               /\ Len(derivatives) = 4
               /\ \A k \in 1..4 :
                     /\ Len(lists[k]) = 100
                     /\ Abs(DeviationSum(lists[k], derivatives[k], 100)) < 100

\* a sweep of the collective has returned, from a baseline in forward flight
C11_Witness ==
    /\ pc = "swept"
    /\ axis = "collective_pitch"
    /\ self.u # 0
    /\ derivatives[1] # 0
    /\ derivatives[2] # 0
    /\ derivatives[3] # 0

\* ------------------------------------------------------------------------
\* Properties of an instance over its life (checked under SpecLife)
\* ------------------------------------------------------------------------
\* C12: no step of plot_response and no sample of a sweep changes the six
\* fields of the instance it was called on or of any instance built before:
\* each loop iteration and each sample adds exactly one new instance and
\* leaves all earlier ones as they are.
C12_Immutable ==
    [][ /\ self' = self
        /\ objs[1] = self
        /\ objs'[1] = self
        /\ Len(objs') >= Len(objs)
        /\ SubSeq(objs', 1, Len(objs)) = objs
        /\ (i' = i + 1 /\ pc = "loop") => Len(objs') = Len(objs) + 1
        /\ n' = n + 1 => Len(objs') = Len(objs) + 1 ]_vars

\* plot_response has run to its end and its last instance differs from self
C12_Witness ==
    /\ pc = "plotted"
    /\ Len(objs) = 1000
    /\ objs[1] = self
    /\ objs[1000].q # self.q
    /\ objs[1000].longitudinal_cyclic = self.longitudinal_cyclic

C14_HoverPulse ==
    (/\ pc \in {"loop", "plotted"}
     /\ cls = "StateSpace"
     /\ self.u = 0 /\ self.w = 0 /\ self.q = 0 /\ self.theta_f = 0
     /\ self.longitudinal_cyclic = 0)
    => \A j \in 0..(Len(q) - 1) :
          /\ At(time, j) < (One \div 2) => At(q, j) = 0
          /\ j <= 25 => At(q, j) = 0
          /\ (26 <= j /\ j <= 50) => At(q, j) # 0

\* the run from hover has finished: q was 0 before the pulse, moved with it
\* and is still away from 0 when the pulse has ended
C14_Witness ==
    /\ pc = "plotted"
    /\ cls = "StateSpace"
    /\ self.u = 0
    /\ self.longitudinal_cyclic = 0
    /\ At(time, 24) < (One \div 2)
    /\ At(q, 24) = 0
    /\ At(q, 26) # 0
    /\ StepCase(49).longitudinal_cyclic = radians(One)
    /\ At(q, 50) # 0

\* ------------------------------------------------------------------------
\* The symmetric hover (checked under SpecAttr)
\* ------------------------------------------------------------------------
\* the attributes a with the thrust equal to the weight
balanced(a) == [a EXCEPT !.thrust = weight_mtow]

\* u = w = q = 0, theta_f = 0 and no longitudinal cyclic
symmetric_hover(s) ==
    /\ s.u = 0
    /\ s.w = 0
    /\ s.q = 0
    /\ s.theta_f = 0
    /\ s.longitudinal_cyclic = 0

C16_CyclicEmitted ==
    /\ \A j \in 0..(Len(cyclic_input) - 1) :
          /\ At(cyclic_input, j) = StepCase(j).longitudinal_cyclic
          /\ At(cyclic_input, j) = control_input(At(time, j))
    /\ Len(cyclic_input) > 0 => At(cyclic_input, 0) = self.longitudinal_cyclic

\* ------------------------------------------------------------------------
\* The lag between the cyclic and the integrated variables (checked under Spec)
\* ------------------------------------------------------------------------
\* the longitudinal cyclic of the instance of step j
cyclic_of_step(j) == IF j = 0 THEN self.longitudinal_cyclic ELSE At(cyclic_input, j)

\* the instance c had it kept the cyclic cyc
held(c, cyc) == [c EXCEPT !.longitudinal_cyclic = cyc]

\* C17: iteration i computes u[i], w[i], q[i] and theta_f[i] from the instance
\* of step i-1, which carries the cyclic of step i-1; the cyclic chosen in
\* iteration i only enters the instance built at its end.  When the cyclic
\* changed at step i-1, u[i] and q[i] differ from what the unchanged cyclic
\* would have given while theta_f[i] does not, and theta_f differs one
\* iteration later.
C17_CyclicLag ==
    [][ (pc = "loop" /\ i' = i + 1) =>
          \E cc \in {StepCase(i - 1)} : \E a \in {Attributes(cc)} :
            /\ cc = current_case
            /\ cc.longitudinal_cyclic = cyclic_of_step(i - 1)
            /\ At(u', i) = euler(cc.u, u_dot(cc, a), delta_t)
            /\ At(w', i) = euler(cc.w, w_dot(cc, a), delta_t)
            /\ At(q', i) = euler(cc.q, q_dot(cc, a), delta_t)
            /\ At(theta_f', i) = euler(cc.theta_f, theta_f_dot(cc), delta_t)
            /\ At(cyclic_input', i) = control_input(At(time, i))
            /\ current_case'.longitudinal_cyclic = At(cyclic_input', i)
            /\ (i >= 2 /\ cc.longitudinal_cyclic # cyclic_of_step(i - 2)) =>
                  \E o \in {held(cc, cyclic_of_step(i - 2))} : \E b \in {Attributes(o)} :
                    /\ At(u', i) # euler(o.u, u_dot(o, b), delta_t)
                    /\ At(q', i) # euler(o.q, q_dot(o, b), delta_t)
                    /\ At(theta_f', i) = euler(o.theta_f, theta_f_dot(o), delta_t)
            /\ (i >= 3 /\ cyclic_of_step(i - 2) # cyclic_of_step(i - 3)) =>
                  \E o \in {held(StepCase(i - 2), cyclic_of_step(i - 3))} :
                    \E b \in {Attributes(o)} :
                      At(theta_f', i) #
                          euler(cc.theta_f, euler(o.q, q_dot(o, b), delta_t), delta_t)
      ]_vars

\* a 100-point run from hover went through the onset and the end of the
\* pulse: q left 0 one step after the onset, theta_f one step after q, and
\* q still fell at the step at which the pulse ended and rose one step later
C17_Witness ==
    /\ pc = "plotted"
    /\ cls = "StateSpace"
    /\ self.u = 0
    /\ self.longitudinal_cyclic = 0
    /\ cyclic_of_step(24) = 0
    /\ cyclic_of_step(25) # 0
    /\ At(q, 25) = 0
    /\ At(q, 26) # 0
    /\ At(theta_f, 26) = 0
    /\ At(theta_f, 27) # 0
    /\ cyclic_of_step(49) # 0
    /\ cyclic_of_step(50) = 0
    /\ At(q, 50) < At(q, 49)
    /\ At(q, 51) > At(q, 50)

\* ------------------------------------------------------------------------
\* The symmetric grid and the baseline (checked under SpecDeriv)
\* ------------------------------------------------------------------------
\* the quotients a sweep would have listed had it subtracted the value f0 of
\* the baseline from the values fs of the samples
baseline_subtracted(fs, f0) == [k \in 1..Len(fs) |-> Div(fs[k] - f0, delta_u[k])]

\* C18: the grid of every sweep holds -delta for each delta it holds; the
\* theta_f_dot component returned is 1 for the sweep of q and 0 for the other
\* five, also from a baseline with q # 0; and the means of u_dot, w_dot and
\* q_dot over delta are the means of the same quotients with the baseline
\* value subtracted, to the rounding of the quotients.
C18_SymmetricGrid ==
    /\ pc \in {"sweep", "swept"} =>
          /\ Len(delta_u) = GridPoints
          /\ \A k \in 1..Len(delta_u) : delta_u[k] = - delta_u[Len(delta_u) + 1 - k]
    /\ pc = "swept" =>
          /\ derivatives[4] = IF axis = "q" THEN One ELSE 0
          /\ \E a0 \in {Attributes(self)} :
               \E as \in {[k \in 1..GridPoints |-> Attributes(objs[k + 1])]} :
                 /\ Abs(mean(baseline_subtracted(
                              [k \in 1..GridPoints |-> u_dot(objs[k + 1], as[k])],
                              u_dot(self, a0))) - derivatives[1]) <= 1
                 /\ Abs(mean(baseline_subtracted(
                              [k \in 1..GridPoints |-> w_dot(objs[k + 1], as[k])],
                              w_dot(self, a0))) - derivatives[2]) <= 1
                 /\ Abs(mean(baseline_subtracted(
                              [k \in 1..GridPoints |-> q_dot(objs[k + 1], as[k])],
                              q_dot(self, a0))) - derivatives[3]) <= 1

\* the sweep of q has returned from a baseline in forward flight with a pitch
\* rate: the single quotients are not 1, their mean is
C18_Witness ==
    /\ pc = "swept"
    /\ axis = "q"
    /\ self.q # 0
    /\ self.u # 0
    /\ theta_f_dot_list[1] # One
    /\ theta_f_dot_list[GridPoints] # One
    /\ derivatives[4] = One
    /\ derivatives[1] # 0

====
